---- MODULE Spec2Model ----
(***************************************************************************)
(* discord-results-bot: the Watcher (monitor_website), the Dispatcher      *)
(* (process_registration_file / process_batch / fetch_result_html) and     *)
(* main of src/discord_bot.py, as one state machine.                       *)
(*                                                                         *)
(* The asyncio event loop runs one coroutine at a time and switches only   *)
(* at an await, so every action below is the code between two awaits at    *)
(* which another coroutine (or the signal handler) can run.                *)
(*                                                                         *)
(* src/discord_bot.py:109 repeats the keyword argument data= in one call,  *)
(* which CPython rejects when it compiles the file.  The model reads the   *)
(* call as the multipart post it is written to be: send_discord_file       *)
(* answers True on status 204 and False otherwise.                         *)
(***************************************************************************)
EXTENDS Integers, Sequences, FiniteSets, TLC

(***************************************************************************)
(* Program constants.                                                      *)
(***************************************************************************)
RETRY_MAX_ATTEMPTS == 3
CHECK_INTERVAL == 1
\* main.py's CHECK_INTERVAL
MAIN_CHECK_INTERVAL == 2
RegNoLength == 11

(***************************************************************************)
(* Bounds.  BATCH_SIZE (20), PARALLEL_REQUESTS (10) and                    *)
(* ERROR_NOTIFICATION_INTERVAL (3600 s) are the program's tunables scaled  *)
(* down, keeping BATCH_SIZE > PARALLEL_REQUESTS as in the program.         *)
(***************************************************************************)
BATCH_SIZE == 2
PARALLEL_REQUESTS == 1
ERROR_NOTIFICATION_INTERVAL == 3
MaxLines == 3
Horizon == 3
MaxGap == 2
ScenarioProbes == 3

\* main.py: NOTIFICATION_INTERVAL (7200 s), the sleep after a run (300 s) and
\* health_check_interval (3600 s), scaled down with their order kept; the clock's bound
NOTIFICATION_INTERVAL == 4
LiveSleep == 2
HealthCheckInterval == 3
MonitorHorizon == 8

\* Python's None, and a value that is not None
None == <<>>
Some(x) == <<x>>

(***************************************************************************)
(* The wall clock.  time.time() is seconds since 1970, far beyond one      *)
(* throttle window, when the Watcher starts.                               *)
(***************************************************************************)
StartTime == ERROR_NOTIFICATION_INTERVAL + 1
MaxTime == StartTime + Horizon

(***************************************************************************)
(* Strings are sequences of one-character strings.                         *)
(***************************************************************************)
DigitChars == {"1", "2"}
Space == " "

RECURSIVE lstrip(_)
lstrip(s) == IF s # <<>> /\ Head(s) = Space THEN lstrip(Tail(s)) ELSE s

RECURSIVE rstrip(_)
rstrip(s) ==
    IF s # <<>> /\ s[Len(s)] = Space THEN rstrip(SubSeq(s, 1, Len(s) - 1)) ELSE s

\* str.strip()
strip(s) == rstrip(lstrip(s))

\* str.isdigit(): non-empty and every character a digit
isdigit(s) == s # <<>> /\ \A k \in 1..Len(s) : s[k] \in DigitChars

clean_registration_number(reg_no) ==
    LET r == strip(reg_no)
    IN  IF isdigit(r) /\ Len(r) = RegNoLength THEN r ELSE <<>>

RegA == [k \in 1..RegNoLength |-> "1"]
RegB == [k \in 1..RegNoLength |-> "2"]
PadA == <<Space>> \o RegA \o <<Space>>
Abc == <<"a", "b", "c">>
Short == [k \in 1..(RegNoLength - 1) |-> "1"]
Blank == <<Space>>

LinePool == {RegA, RegB, PadA, Abc, Short, Blank}

RECURSIVE SeqsUpTo(_, _)
SeqsUpTo(S, n) ==
    IF n = 0 THEN {<<>>}
    ELSE LET shorter == SeqsUpTo(S, n - 1)
         IN  shorter \cup {Append(q, x) : q \in {p \in shorter : Len(p) = n - 1}, x \in S}

\* registration_numbers.txt as the Dispatcher may find it when it reads it
AllDisks ==
    {[state |-> "missing", lines |-> <<>>], [state |-> "unreadable", lines |-> <<>>]}
    \cup {[state |-> "ok", lines |-> f] : f \in SeqsUpTo(LinePool, MaxLines)}

WatchDisks ==
    {[state |-> "missing", lines |-> <<>>],
     [state |-> "unreadable", lines |-> <<>>],
     [state |-> "ok", lines |-> <<Blank>>],
     [state |-> "ok", lines |-> <<RegA, RegB, Abc>>]}

Disks(family) == IF family = "any" THEN AllDisks ELSE WatchDisks

RECURSIVE dedup(_, _)
dedup(s, seen) ==
    IF s = <<>> THEN <<>>
    ELSE IF Head(s) \in seen THEN dedup(Tail(s), seen)
         ELSE <<Head(s)>> \o dedup(Tail(s), seen \cup {Head(s)})

RECURSIVE stripped_lines(_)
stripped_lines(lines) ==
    IF lines = <<>> THEN <<>>
    ELSE IF strip(Head(lines)) # <<>>
         THEN <<strip(Head(lines))>> \o stripped_lines(Tail(lines))
         ELSE stripped_lines(Tail(lines))

\* list(dict.fromkeys(line.strip() for line in f if line.strip()))
read_reg_nos(lines) == dedup(stripped_lines(lines), {})

(***************************************************************************)
(* Response bodies are the sets of the markers the code searches for.      *)
(***************************************************************************)
StudentName == "Student Name:"
RegistrationNo == "Registration No:"
Http503 == "HTTP Error 503"
ServiceUnavailable == "Service Unavailable"
InvalidRegNo == "Invalid Registration Number"

Markers == {StudentName, RegistrationNo, Http503, ServiceUnavailable, InvalidRegNo}
Bodies == SUBSET Markers
Statuses == {200, 503}

is_result_html(html) == StudentName \in html \/ RegistrationNo \in html

is_website_down_html(html) == Http503 \in html \/ ServiceUnavailable \in html

RECURSIVE Pow2(_)
Pow2(n) == IF n = 0 THEN 1 ELSE 2 * Pow2(n - 1)

Min(a, b) == IF a < b THEN a ELSE b


(***************************************************************************)
(* State.                                                                  *)
(***************************************************************************)
VARIABLES
    shutdown,                   \* shutdown_event
    now,                        \* the wall clock, in seconds
    mpc,                        \* main: "await" | "exited"
    wpc,                        \* monitor_website: "start" | "loop" | "probe" | "sleep" | "dispatch" | "done"
    current_time,               \* monitor_website's local
    last_error_notification,    \* monitor_website's local
    is_first_check,             \* monitor_website's local
    files,                      \* which registration_numbers.txt the run may find: "any" | "watch"
    dpc,                        \* process_registration_file: "idle" | "called" | "session" | "batch" | "gather" | "results" | "pause" | "summary" | "returned" | "raised"
    reg_nos,                    \* the deduplicated identifier list
    i,                          \* offset of the current batch in reg_nos
    task,                       \* process_single, one per position of the batch
    permits,                    \* the value of process_batch's semaphore
    rpos,                       \* position of the results loop, from 1
    successful,                 \* process_batch's tally
    all_successful,             \* process_registration_file's tally
    \* history
    handoffs,                   \* calls of process_registration_file so far
    live_seen,                  \* a probe was classified Live
    probes_after_live,          \* probes issued after a Live classification
    dispatcher_failed,          \* process_registration_file raised
    obs_cat,                    \* category of the latest non-Live observation
    seen,                       \* categories observed so far
    last_emit,                  \* per category: current_time of its last notification, -1 if none
    prev_emit,                  \* per category: current_time of the notification before that
    lead,                       \* Degraded probes the run opened with (-1 once another state was observed)
    lead_emits,                 \* notifications among those
    send_result,                \* what became of the send of the last observation, until the sleep is over
    runlog,                     \* run-level notifications of the current Dispatcher run
    n_outcomes,                 \* results handled by the results loops of the run
    final_sent,                 \* main's closing notification was sent
    summary,                    \* the fields of the Processing Complete embed, once sent
    n_delivered,                \* documents send_discord_file delivered in the run
    batched,                    \* the batches process_batch was called with, one after another
    monitor                     \* main.py: the ResultsMonitor, its monitor_website and the clock

watcher_vars == <<wpc, current_time, last_error_notification, is_first_check>>
throttle_marks == <<obs_cat, seen, last_emit, prev_emit, lead, lead_emits>>
throttle_hist == <<throttle_marks, send_result>>
handoff_hist == <<handoffs, live_seen, probes_after_live, dispatcher_failed>>
batch_vars == <<task, permits, rpos, successful>>
run_vars == <<reg_nos, i, all_successful, runlog, n_outcomes>>
dispatcher_vars == <<dpc, run_vars, batch_vars>>
env_vars == <<shutdown, now, files>>
main_vars == <<mpc, final_sent>>
report_vars == <<summary, n_delivered, batched>>
variant_vars == <<monitor>>

vars == <<env_vars, main_vars, watcher_vars, dispatcher_vars, throttle_hist, handoff_hist,
          report_vars, variant_vars>>

Categories == {"degraded", "unreachable", "notyet"}

NoTasks == <<>>

MonitorStartTime == NOTIFICATION_INTERVAL + 1
MonitorMaxTime == MonitorStartTime + MonitorHorizon

\* main.py: ResultsMonitor.__init__, and monitor_website not yet running
ResultsMonitor ==
    [pc |-> "start",
     clock |-> MonitorStartTime,
     current_time |-> 0,
     last_health_check |-> 0,
     last_notification_time |-> 0,
     is_first_check |-> TRUE,
     runs |-> 0,
     probes_after_run |-> 0]

InitCommon ==
    /\ shutdown = FALSE
    /\ now = StartTime
    /\ mpc = "await"
    /\ final_sent = FALSE
    /\ last_error_notification = 0
    /\ is_first_check = TRUE
    /\ reg_nos = <<>>
    /\ i = 0
    /\ task = NoTasks
    /\ permits = 0
    /\ rpos = 0
    /\ successful = <<>>
    /\ all_successful = <<>>
    /\ dispatcher_failed = FALSE
    /\ obs_cat = "none"
    /\ seen = {}
    /\ last_emit = [c \in Categories |-> -1]
    /\ prev_emit = [c \in Categories |-> -1]
    /\ lead = 0
    /\ lead_emits = 0
    /\ send_result = "none"
    /\ runlog = <<>>
    /\ n_outcomes = 0
    /\ summary = None
    /\ n_delivered = 0
    /\ batched = <<>>
    /\ monitor = ResultsMonitor

\* main has created monitor_task; monitor_website has not run yet
Init ==
    /\ InitCommon
    /\ files = "watch"
    /\ wpc = "start"
    /\ current_time = 0
    /\ dpc = "idle"
    /\ handoffs = 0
    /\ live_seen = FALSE
    /\ probes_after_live = 0

\* the Watcher's first probe was classified Live: process_registration_file is called
InitD ==
    /\ InitCommon
    /\ files = "any"
    /\ wpc = "dispatch"
    /\ current_time = StartTime
    /\ dpc = "called"
    /\ handoffs = 1
    /\ live_seen = TRUE
    /\ probes_after_live = 0

(***************************************************************************)
(* The Dispatcher: process_registration_file.                              *)
(***************************************************************************)
total == Len(reg_nos)

batch == SubSeq(reg_nos, i + 1, Min(i + BATCH_SIZE, total))

Positions == 1..Len(task)

ReadFile ==
    /\ dpc = "called"
    /\ \E disk \in Disks(files) :
        IF disk.state = "missing"
        THEN /\ runlog' = <<"file_not_found">>
             /\ reg_nos' = <<>>
             /\ dpc' = "returned"
        ELSE IF disk.state = "unreadable"
        THEN /\ runlog' = <<"file_error">>
             /\ reg_nos' = <<>>
             /\ dpc' = "returned"
        ELSE /\ reg_nos' = read_reg_nos(disk.lines)
             /\ IF reg_nos' = <<>>
                THEN runlog' = <<"no_numbers">> /\ dpc' = "returned"
                ELSE runlog' = <<"started">> /\ dpc' = "session"
    /\ i' = 0
    /\ all_successful' = <<>>
    /\ n_outcomes' = 0
    /\ task' = NoTasks
    /\ permits' = 0
    /\ rpos' = 0
    /\ successful' = <<>>
    /\ UNCHANGED <<env_vars, main_vars, watcher_vars, throttle_hist, handoff_hist>>
    /\ summary' = None
    /\ n_delivered' = 0
    /\ batched' = <<>>
    /\ UNCHANGED variant_vars

OpenSession ==
    /\ dpc = "session"
    /\ dpc' = "batch"
    /\ all_successful' = <<>>
    /\ UNCHANGED <<reg_nos, i, runlog, n_outcomes, batch_vars>>
    /\ UNCHANGED <<env_vars, main_vars, watcher_vars, throttle_hist, handoff_hist>>
    /\ UNCHANGED <<report_vars, variant_vars>>

(***************************************************************************)
(* process_batch.  gather starts the tasks in list order and each runs to  *)
(* its first await: a shape-invalid identifier's task is inside            *)
(* send_discord_message, a valid one holds the semaphore and has its first *)
(* request out, or waits for the semaphore.                                *)
(***************************************************************************)
valid(reg_no) == clean_registration_number(reg_no) # <<>>

valid_before(b, j) == Cardinality({k \in 1..j : valid(b[k])})

\* asyncio.Semaphore.acquire without waiting: the semaphore is not locked
can_acquire_mutant(value) == TRUE

can_acquire(value) == value > 0

\* the semaphore's value when task j gets to it: each valid identifier before it took
\* a permit while there was one
value_at(b, j) ==
    IF valid_before(b, j) - 1 < PARALLEL_REQUESTS
    THEN PARALLEL_REQUESTS - (valid_before(b, j) - 1)
    ELSE 0

new_task(b, j) ==
    [pc |-> IF ~valid(b[j]) THEN "send"
            ELSE IF can_acquire(value_at(b, j)) THEN "get"
            ELSE "wait",
     attempt |-> 0,
     reg |-> None,
     html |-> None,
     calls |-> IF valid(b[j]) /\ can_acquire(value_at(b, j)) THEN 1 ELSE 0,
     sleeps |-> <<>>,
     trace |-> <<>>,
     inv |-> FALSE,
     down |-> FALSE,
     notes |-> IF valid(b[j]) THEN <<>> ELSE <<"invalid">>,
     acquired |-> IF valid(b[j]) /\ can_acquire(value_at(b, j)) THEN 1 ELSE 0,
     released |-> 0]

StartBatch ==
    /\ dpc = "batch"
    /\ runlog' = Append(runlog, "batch")
    /\ task' = [j \in 1..Len(batch) |-> new_task(batch, j)]
    /\ permits' = PARALLEL_REQUESTS
                    - Cardinality({j \in 1..Len(batch) : task'[j].pc = "get"})
    /\ rpos' = 0
    /\ successful' = <<>>
    /\ dpc' = "gather"
    /\ UNCHANGED <<reg_nos, i, all_successful, n_outcomes>>
    /\ UNCHANGED <<env_vars, main_vars, watcher_vars, throttle_hist, handoff_hist>>
    /\ batched' = batched \o batch
    /\ UNCHANGED <<summary, n_delivered, variant_vars>>

FrameTask ==
    /\ UNCHANGED <<dpc, run_vars, rpos, successful>>
    /\ UNCHANGED <<env_vars, main_vars, watcher_vars, throttle_hist, handoff_hist>>
    /\ UNCHANGED <<report_vars, variant_vars>>

\* send_discord_message returns in process_single: return None, None
InvalidSent(j) ==
    /\ dpc = "gather"
    /\ task[j].pc = "send"
    /\ task' = [task EXCEPT ![j].pc = "done"]
    /\ UNCHANGED permits
    /\ FrameTask

\* async with semaphore, after waiting
Acquire(j) ==
    /\ dpc = "gather"
    /\ task[j].pc = "wait"
    /\ can_acquire(permits)
    /\ permits' = permits - 1
    /\ task' = [task EXCEPT ![j].pc = "get", ![j].calls = 1, ![j].acquired = @ + 1]
    /\ FrameTask

(***************************************************************************)
(* fetch_result_html.  A response is a body or a transport exception.      *)
(***************************************************************************)
\* what one request can come to: a body, or an exception of the transport
Responses ==
    {[exc |-> FALSE, html |-> b] : b \in Bodies} \cup {[exc |-> TRUE, html |-> {}]}

classify_mutant(r) ==
    IF r.exc THEN "transient"
    ELSE IF is_website_down_html(r.html) THEN "transient"
    ELSE IF is_result_html(r.html) THEN "found"
    ELSE "none"

\* the order of the tests on one attempt's response
classify(r) ==
    IF r.exc THEN "transient"
    ELSE IF is_website_down_html(r.html) THEN "transient"
    ELSE IF InvalidRegNo \in r.html THEN "invalid"
    ELSE IF is_result_html(r.html) THEN "found"
    ELSE "none"

release_mutant(value) == value

\* leaving async with semaphore
release(value) == value + 1

returned(t, reg_no, html) ==
    [t EXCEPT !.pc = "done", !.reg = reg_no, !.html = html, !.released = @ + 1]

across_sleep_mutant(value) == value + 1

\* asyncio.sleep(2 ** attempt) runs inside async with semaphore: the permit stays taken
across_sleep(value) == value

FetchResponse(j) ==
    /\ dpc = "gather"
    /\ task[j].pc = "get"
    /\ \E r \in Responses :
        LET t == [task[j] EXCEPT !.trace = Append(@, classify(r)),
                                 !.inv = (InvalidRegNo \in r.html),
                                 !.down = is_website_down_html(r.html)]
        IN  IF classify(r) = "transient"
            THEN /\ task' = [task EXCEPT ![j] =
                        [t EXCEPT !.pc = "backoff",
                                  !.sleeps = Append(@, Pow2(t.attempt))]]
                 /\ permits' = across_sleep(permits)
            ELSE /\ task' = [task EXCEPT ![j] =
                        returned(t, Some(reg_nos[i + j]),
                                 IF classify(r) = "found" THEN Some(r.html) ELSE None)]
                 /\ permits' = release(permits)
    /\ FrameTask

\* what follows the sleep of attempt a: the next turn of the for loop, or its end
loop_continues(a) == a + 1 < RETRY_MAX_ATTEMPTS

\* asyncio.sleep(2 ** attempt) returns
BackoffDone(j) ==
    /\ dpc = "gather"
    /\ task[j].pc = "backoff"
    /\ IF loop_continues(task[j].attempt)
       THEN /\ task' = [task EXCEPT ![j].pc = "get",
                                    ![j].attempt = @ + 1,
                                    ![j].calls = @ + 1]
            /\ UNCHANGED permits
       ELSE /\ task' = [task EXCEPT ![j] = returned(task[j], Some(reg_nos[i + j]), None)]
            /\ permits' = release(permits)
    /\ FrameTask

GatherDone ==
    /\ dpc = "gather"
    /\ \A j \in Positions : task[j].pc = "done"
    /\ dpc' = "results"
    /\ rpos' = 1
    /\ successful' = <<>>
    /\ UNCHANGED <<run_vars, task, permits>>
    /\ UNCHANGED <<env_vars, main_vars, watcher_vars, throttle_hist, handoff_hist>>
    /\ UNCHANGED <<report_vars, variant_vars>>

append_if_sent_mutant(tally, sent, reg_no) == tally \o reg_no

\* if sent: successful.append(reg_no)
append_if_sent(tally, sent, reg_no) == IF sent THEN tally \o reg_no ELSE tally

results_left_mutant(pos, n) == FALSE

\* for reg_no, html_content in results: there is a result after this one
results_left(pos, n) == pos < n

\* one turn of: for reg_no, html_content in results
HandleResult ==
    /\ dpc = "results"
    /\ rpos \in Positions
    /\ IF task[rpos].html # None
       THEN \E sent \in BOOLEAN :
              /\ successful' = append_if_sent(successful, sent, task[rpos].reg)
              /\ n_delivered' = IF sent THEN n_delivered + 1 ELSE n_delivered
              /\ task' = [task EXCEPT ![rpos].notes =
                            IF sent THEN @ \o <<"found", "file_sent">>
                            ELSE @ \o <<"found", "file_failed", "warning">>]
       ELSE /\ successful' = successful
            /\ n_delivered' = n_delivered
            /\ task' = [task EXCEPT ![rpos].notes = Append(@, "no_result")]
    /\ rpos' = rpos + 1
    /\ n_outcomes' = n_outcomes + 1
    /\ dpc' = IF results_left(rpos, Len(task)) THEN "results" ELSE "pause"
    /\ UNCHANGED <<reg_nos, i, all_successful, runlog, permits>>
    /\ UNCHANGED <<env_vars, main_vars, watcher_vars, throttle_hist, handoff_hist>>
    /\ UNCHANGED <<summary, batched>>
    /\ UNCHANGED variant_vars

\* process_batch returns and its locals are gone; all_successful.extend(successful);
\* await asyncio.sleep(1); the next turn of the batch loop
EndBatch ==
    /\ dpc = "pause"
    /\ all_successful' = all_successful \o successful
    /\ i' = i + BATCH_SIZE
    /\ dpc' = IF i' < total THEN "batch" ELSE "summary"
    /\ task' = NoTasks
    /\ permits' = 0
    /\ rpos' = 0
    /\ successful' = <<>>
    /\ UNCHANGED <<reg_nos, runlog, n_outcomes>>
    /\ UNCHANGED <<env_vars, main_vars, watcher_vars, throttle_hist, handoff_hist>>
    /\ UNCHANGED <<report_vars, variant_vars>>

failed_count_mutant(n, tally) == n

\* total - len(all_successful)
failed_count(n, tally) == n - Len(tally)

\* the Successful, Failed and Total Processed fields of the closing embed
summary_fields ==
    [successful |-> Len(all_successful),
     failed |-> failed_count(total, all_successful),
     total_processed |-> total]

Summary ==
    /\ dpc = "summary"
    /\ runlog' = Append(runlog, "summary")
    /\ summary' = Some(summary_fields)
    /\ UNCHANGED <<n_delivered, batched>>
    /\ dpc' = "returned"
    /\ UNCHANGED <<reg_nos, i, all_successful, n_outcomes, batch_vars>>
    /\ UNCHANGED <<env_vars, main_vars, watcher_vars, throttle_hist, handoff_hist>>
    /\ UNCHANGED variant_vars


(***************************************************************************)
(* The Watcher: monitor_website.                                           *)
(***************************************************************************)
\* the Monitoring Started embed
MonitorStart ==
    /\ wpc = "start"
    /\ wpc' = "loop"
    /\ UNCHANGED <<current_time, last_error_notification, is_first_check>>
    /\ UNCHANGED <<env_vars, main_vars, dispatcher_vars, throttle_hist, handoff_hist>>
    /\ UNCHANGED <<report_vars, variant_vars>>

loop_runs_mutant(is_set) == FALSE

\* while not shutdown_event.is_set()
loop_runs(is_set) == ~is_set

\* while not shutdown_event.is_set(): current_time = time.time(); session.get(URL)
LoopCheck ==
    /\ wpc = "loop"
    /\ IF ~loop_runs(shutdown)
       THEN /\ wpc' = "done"
            /\ UNCHANGED <<current_time, probes_after_live>>
       ELSE /\ wpc' = "probe"
            /\ current_time' = now
            /\ probes_after_live' = IF live_seen THEN probes_after_live + 1
                                    ELSE probes_after_live
    /\ UNCHANGED <<last_error_notification, is_first_check>>
    /\ UNCHANGED <<handoffs, live_seen, dispatcher_failed>>
    /\ UNCHANGED <<env_vars, main_vars, dispatcher_vars, throttle_hist>>
    /\ UNCHANGED <<report_vars, variant_vars>>

\* the tests on the probe's response, in the code's order
poll_state(status, html) ==
    IF status = 200 /\ is_result_html(html) THEN "Live"
    ELSE IF is_website_down_html(html) THEN "Degraded"
    ELSE "NotYet"

\* the states a probe that is answered can be classified as
PollStates == {poll_state(status, html) : status \in Statuses, html \in Bodies}

should_notify_mutant(ct, last, first) == TRUE

\* current_time - last_error_notification >= ERROR_NOTIFICATION_INTERVAL or is_first_check
should_notify(ct, last, first) == ct - last >= ERROR_NOTIFICATION_INTERVAL \/ first

\* the history of one non-Live observation
Observe(cat, emitted) ==
    /\ obs_cat' = cat
    /\ seen' = seen \cup {cat}
    /\ last_emit' = IF emitted THEN [last_emit EXCEPT ![cat] = current_time] ELSE last_emit
    /\ prev_emit' = IF emitted THEN [prev_emit EXCEPT ![cat] = last_emit[cat]] ELSE prev_emit
    /\ lead' = IF cat = "degraded" /\ lead >= 0 /\ lead < ScenarioProbes
               THEN lead + 1 ELSE -1
    /\ lead_emits' = IF lead' = -1 THEN 0
                     ELSE IF emitted THEN lead_emits + 1 ELSE lead_emits

\* the guarded send of lines 295-300 and 306-312.  send_discord_message returns
\* nothing: a webhook answer other than 204 is logged, an exception is caught and
\* logged, and the caller goes on the same way
ThrottledNotify(cat) ==
    IF should_notify(current_time, last_error_notification, is_first_check)
    THEN /\ \E status \in {"ok", "failed"} : send_result' = status
         /\ last_error_notification' = current_time
         /\ is_first_check' = FALSE
         /\ Observe(cat, TRUE)
    ELSE /\ send_result' = "none"
         /\ UNCHANGED <<last_error_notification, is_first_check>>
         /\ Observe(cat, FALSE)

\* where the loop goes once process_registration_file has returned
after_dispatch_mutant == "sleep"

after_dispatch == "done"

\* RESULTS LIVE embed, then the call of process_registration_file
ProbeLive ==
    /\ wpc = "probe"
    /\ "Live" \in PollStates
    /\ wpc' = "dispatch"
    /\ dpc' = "called"
    /\ live_seen' = TRUE
    /\ handoffs' = handoffs + 1
    /\ UNCHANGED <<current_time, last_error_notification, is_first_check>>
    /\ UNCHANGED <<probes_after_live, dispatcher_failed>>
    /\ UNCHANGED <<env_vars, main_vars, run_vars, batch_vars, throttle_hist>>
    /\ UNCHANGED <<report_vars, variant_vars>>

ProbeDegraded ==
    /\ wpc = "probe"
    /\ "Degraded" \in PollStates
    /\ ThrottledNotify("degraded")
    /\ wpc' = "sleep"
    /\ UNCHANGED current_time
    /\ UNCHANGED <<env_vars, main_vars, dispatcher_vars, handoff_hist>>
    /\ UNCHANGED <<report_vars, variant_vars>>

\* only printed and logged
ProbeNotYet ==
    /\ wpc = "probe"
    /\ "NotYet" \in PollStates
    /\ Observe("notyet", FALSE)
    /\ send_result' = "none"
    /\ wpc' = "sleep"
    /\ UNCHANGED <<current_time, last_error_notification, is_first_check>>
    /\ UNCHANGED <<env_vars, main_vars, dispatcher_vars, handoff_hist>>
    /\ UNCHANGED <<report_vars, variant_vars>>

\* session.get or response.text() raises
ProbeException ==
    /\ wpc = "probe"
    /\ ThrottledNotify("unreachable")
    /\ wpc' = "sleep"
    /\ UNCHANGED current_time
    /\ UNCHANGED <<env_vars, main_vars, dispatcher_vars, handoff_hist>>
    /\ UNCHANGED <<report_vars, variant_vars>>

after_sleep_mutant == "probe"

\* the sleep is the last statement of the loop's body: the while condition is next
after_sleep == "loop"

\* await asyncio.sleep(CHECK_INTERVAL): the clock moves on by the sleep and by what
\* the probe before it took
Sleep ==
    /\ wpc = "sleep"
    /\ \E d \in CHECK_INTERVAL..MaxGap :
        /\ now + d <= MaxTime
        /\ now' = now + d
    /\ wpc' = after_sleep
    /\ UNCHANGED <<shutdown, files>>
    /\ UNCHANGED <<current_time, last_error_notification, is_first_check>>
    /\ send_result' = "none"
    /\ UNCHANGED <<main_vars, dispatcher_vars, throttle_marks, handoff_hist>>
    /\ UNCHANGED <<report_vars, variant_vars>>

\* process_registration_file returns: break
DispatcherReturn ==
    /\ wpc = "dispatch"
    /\ dpc = "returned"
    /\ dpc' = "idle"
    /\ wpc' = after_dispatch
    /\ UNCHANGED <<current_time, last_error_notification, is_first_check>>
    /\ UNCHANGED <<env_vars, main_vars, run_vars, batch_vars, throttle_hist, handoff_hist>>
    /\ UNCHANGED <<report_vars, variant_vars>>

(***************************************************************************)
(* An exception leaving process_registration_file.  Its own awaits are all *)
(* wrapped, so only a failure outside them (the ClientSession of line 221  *)
(* is built outside any try) gets out; it lands in monitor_website's       *)
(* except Exception, which notifies under the throttle and lets the loop   *)
(* go on.                                                                  *)
(***************************************************************************)
DispatcherRaises ==
    /\ wpc = "dispatch"
    /\ dpc = "session"
    /\ dpc' = "idle"
    /\ dispatcher_failed' = TRUE
    /\ ThrottledNotify("unreachable")
    /\ wpc' = "sleep"
    /\ UNCHANGED current_time
    /\ UNCHANGED <<handoffs, live_seen, probes_after_live>>
    /\ UNCHANGED <<env_vars, main_vars, run_vars, batch_vars>>
    /\ UNCHANGED <<report_vars, variant_vars>>

(***************************************************************************)
(* main and the signal handler.                                            *)
(***************************************************************************)
task_done_mutant(pc) == TRUE

\* await monitor_task returns once monitor_website has returned
task_done(pc) == pc = "done"

\* await monitor_task is over: finally, the closing notification
MainFinally ==
    /\ mpc = "await"
    /\ task_done(wpc)
    /\ mpc' = "exited"
    /\ final_sent' = TRUE
    /\ UNCHANGED <<env_vars, watcher_vars, dispatcher_vars, throttle_hist, handoff_hist>>
    /\ UNCHANGED <<report_vars, variant_vars>>

shutdown_handler ==
    /\ mpc = "await"
    /\ ~shutdown
    /\ shutdown' = TRUE
    /\ UNCHANGED <<now, files>>
    /\ UNCHANGED <<main_vars, watcher_vars, dispatcher_vars, throttle_hist, handoff_hist>>
    /\ UNCHANGED <<report_vars, variant_vars>>

(***************************************************************************)
(* The main.py variant: ResultsMonitor.monitor_website.  It shares nothing *)
(* with discord_bot.py; its whole state is the record monitor.             *)
(***************************************************************************)
MonitorFrame ==
    UNCHANGED <<env_vars, main_vars, watcher_vars, dispatcher_vars, throttle_hist,
                handoff_hist, report_vars>>

\* last_health_check = time.time(); the Monitoring started message
RM_Start ==
    /\ monitor.pc = "start"
    /\ monitor' = [monitor EXCEPT !.pc = "loop", !.last_health_check = monitor.clock]
    /\ MonitorFrame

\* while True: current_time = time.time(); the health check when it is due;
\* session.get(URL)
RM_LoopHead ==
    /\ monitor.pc = "loop"
    /\ monitor' = [monitor EXCEPT
            !.pc = "probe",
            !.current_time = monitor.clock,
            !.last_health_check =
                IF monitor.clock - @ >= HealthCheckInterval THEN monitor.clock ELSE @,
            !.probes_after_run = IF monitor.runs > 0 THEN @ + 1 ELSE @]
    /\ MonitorFrame

\* is_first_check or current_time - last_notification_time >= NOTIFICATION_INTERVAL
run_due(m) == m.is_first_check \/ m.current_time - m.last_notification_time >= NOTIFICATION_INTERVAL

\* status 200 and a run is due: Website is LIVE, process_registration_file is called
RM_ProbeLive ==
    /\ monitor.pc = "probe"
    /\ run_due(monitor)
    /\ monitor' = [monitor EXCEPT !.pc = "dispatch", !.runs = @ + 1]
    /\ MonitorFrame

\* process_registration_file has returned: Processing complete, the throttle is set,
\* asyncio.sleep(300) and continue
RM_DispatchReturn ==
    /\ monitor.pc = "dispatch"
    /\ monitor' = [monitor EXCEPT !.pc = "sleep_live",
                                  !.last_notification_time = monitor.current_time,
                                  !.is_first_check = FALSE]
    /\ MonitorFrame

\* status 200 and no run due, or another status: nothing is done
RM_ProbeQuiet ==
    /\ monitor.pc = "probe"
    /\ \E status \in Statuses : status # 200 \/ ~run_due(monitor)
    /\ monitor' = [monitor EXCEPT !.pc = "sleep"]
    /\ MonitorFrame

\* session.get raises: Website error, under the throttle
RM_ProbeException ==
    /\ monitor.pc = "probe"
    /\ monitor' = [monitor EXCEPT
            !.pc = "sleep",
            !.last_notification_time =
                IF monitor.current_time - @ >= NOTIFICATION_INTERVAL
                THEN monitor.current_time ELSE @]
    /\ MonitorFrame

\* asyncio.sleep(300) after a run, asyncio.sleep(CHECK_INTERVAL) otherwise; the clock
\* moves on by the sleep or a little more
RM_Sleep ==
    /\ monitor.pc \in {"sleep", "sleep_live"}
    /\ \E extra \in 0..1 :
        LET d == (IF monitor.pc = "sleep_live" THEN LiveSleep ELSE MAIN_CHECK_INTERVAL)
                    + extra
        IN  /\ monitor.clock + d <= MonitorMaxTime
            /\ monitor' = [monitor EXCEPT !.pc = "loop", !.clock = @ + d]
    /\ MonitorFrame

(***************************************************************************)
(* Specifications.                                                         *)
(***************************************************************************)
DispatcherNext ==
    \/ ReadFile
    \/ OpenSession
    \/ StartBatch
    \/ \E j \in Positions : InvalidSent(j)
    \/ \E j \in Positions : Acquire(j)
    \/ \E j \in Positions : FetchResponse(j)
    \/ \E j \in Positions : BackoffDone(j)
    \/ GatherDone
    \/ HandleResult
    \/ EndBatch
    \/ Summary

WatcherNext ==
    \/ MonitorStart
    \/ LoopCheck
    \/ ProbeLive
    \/ ProbeDegraded
    \/ ProbeNotYet
    \/ ProbeException
    \/ Sleep

Next ==
    \/ WatcherNext
    \/ DispatcherNext
    \/ DispatcherReturn
    \/ MainFinally
    \/ shutdown_handler

\* the whole program
Spec == Init /\ [][Next]_vars

NextD ==
    \/ DispatcherNext
    \/ DispatcherReturn
    \/ MainFinally

\* one Dispatcher run, from the handoff on, over every identifier file
SpecD == InitD /\ [][NextD]_vars

\* the event loop runs every ready coroutine; every request and sleep ends
FairSpecD == SpecD /\ WF_vars(DispatcherNext)

\* the whole program with a Dispatcher that may raise
SpecFault == Init /\ [][Next \/ DispatcherRaises]_vars

NextM ==
    \/ RM_Start
    \/ RM_LoopHead
    \/ RM_ProbeLive
    \/ RM_DispatchReturn
    \/ RM_ProbeQuiet
    \/ RM_ProbeException
    \/ RM_Sleep

\* main.py: a ResultsMonitor from its construction on
SpecM == Init /\ [][NextM]_vars


(***************************************************************************)
(* Properties.                                                             *)
(***************************************************************************)

\* C1: once a probe is classified Live, process_registration_file is called
\* exactly once and the Watcher issues no further probe.
C1_HandoffOnceThenStop ==
    /\ handoffs <= 1
    /\ live_seen => handoffs = 1 /\ wpc \in {"dispatch", "done"}
    /\ probes_after_live = 0

\* a run that went Live, ran the Dispatcher over a batch and ended
C1_Witness ==
    /\ live_seen
    /\ handoffs = 1
    /\ mpc = "exited"
    /\ runlog # <<>> /\ runlog[Len(runlog)] = "summary"

OutcomeKinds == {"invalid", "no_result", "found"}

outcome_notes(t) == Cardinality({k \in 1..Len(t.notes) : t.notes[k] \in OutcomeKinds})

RECURSIVE outcomes_upto(_)
outcomes_upto(n) == IF n = 0 THEN 0 ELSE outcomes_upto(n - 1) + outcome_notes(task[n])

\* C2: when a batch is done, the outcome notifications emitted for it
\* (invalid-format, no-result, result-found) are as many as its identifiers.
C2_OneOutcomePerIdentifier ==
    dpc = "pause" => outcomes_upto(Len(task)) = Len(task)

Outstanding == {j \in Positions : task[j].pc \in {"get", "backoff"}}

\* C3: at most PARALLEL_REQUESTS identifiers are inside fetch_result_html at once.
C3_ConcurrencyBound == Cardinality(Outstanding) <= PARALLEL_REQUESTS

\* the gate is full and another valid identifier of the batch waits for it
C3_Witness ==
    /\ Cardinality(Outstanding) = PARALLEL_REQUESTS
    /\ \E j \in Positions : task[j].pc = "wait"

all_transient(t) ==
    /\ t.pc = "done"
    /\ t.trace # <<>>
    /\ \A k \in 1..Len(t.trace) : t.trace[k] = "transient"

\* C4: a fetch transient on every attempt makes RETRY_MAX_ATTEMPTS requests, sleeps
\* RETRY_MAX_ATTEMPTS - 1 times, 2^0, 2^1, ... between them and not after the last,
\* and returns None.
C4_RetryLaw ==
    \A j \in Positions :
        all_transient(task[j]) =>
            /\ task[j].calls = RETRY_MAX_ATTEMPTS
            /\ task[j].sleeps = [k \in 1..(RETRY_MAX_ATTEMPTS - 1) |-> Pow2(k - 1)]
            /\ task[j].html = None

\* C5: two notifications of one category are at least one window apart, so two
\* observations less than a window apart give at most one; and a run that opens with
\* ScenarioProbes Degraded probes inside one window has notified exactly once.
C5_ThrottleLaw ==
    /\ \A c \in Categories :
        prev_emit[c] >= 0 => last_emit[c] - prev_emit[c] >= ERROR_NOTIFICATION_INTERVAL
    /\ (lead = ScenarioProbes /\ current_time - StartTime < ERROR_NOTIFICATION_INTERVAL)
            => lead_emits = 1

\* three Degraded probes in a row, all inside the window of the first
C5_Witness ==
    /\ lead = ScenarioProbes
    /\ wpc = "sleep"
    /\ current_time - StartTime < ERROR_NOTIFICATION_INTERVAL
    /\ lead_emits = 1

\* C6: an observation of category c notifies iff it is the first observation of c or
\* at least one window has passed since c last notified, whatever the other
\* categories did.
C6_IndependentCategories ==
    [][\A c \in Categories :
         (wpc = "probe" /\ wpc' = "sleep" /\ obs_cat' = c) =>
            ((last_emit'[c] # last_emit[c]) <=>
                (c \notin seen
                    \/ current_time - last_emit[c] >= ERROR_NOTIFICATION_INTERVAL))]_vars

\* C7: a shape-invalid identifier of a finished batch made no request and got the
\* invalid-format notification and nothing else.
C7_InvalidNotifiedOnce ==
    \A j \in Positions :
        (dpc = "pause" /\ ~valid(batch[j])) =>
            /\ task[j].calls = 0
            /\ task[j].notes = <<"invalid">>

\* the fetch is over with None, and nothing was slept after the last request
ended_at_once(t) ==
    /\ t.pc = "done"
    /\ t.html = None
    /\ Len(t.sleeps) = t.calls - 1

\* C8, as claimed: a response with the invalid-identifier marker, whatever else it
\* holds, ends the fetch at once.
C8_InvalidMarkerEnds ==
    \A j \in Positions : task[j].inv => ended_at_once(task[j])

\* C8, amended: a response with the invalid-identifier marker and no overload marker
\* ends the fetch at once.
C8_InvalidMarkerEndsUnlessDown ==
    \A j \in Positions : (task[j].inv /\ ~task[j].down) => ended_at_once(task[j])

\* the first response carries the marker and the fetch is over
C8_Witness ==
    \E j \in Positions :
        /\ task[j].inv
        /\ ~task[j].down
        /\ task[j].calls = 1
        /\ task[j].pc = "done"

summary_sent == runlog # <<>> /\ runlog[Len(runlog)] = "summary"

\* C9: a Dispatcher run over a non-empty list always comes to its summary, with an
\* outcome handled for every identifier.
C9_RunCompletes ==
    (dpc = "session") ~> (dpc = "returned" /\ summary_sent /\ n_outcomes = total)

\* a finished run of two batches in which some identifier failed
C9_Witness ==
    /\ dpc = "returned"
    /\ summary_sent
    /\ total > BATCH_SIZE
    /\ n_outcomes = total
    /\ Len(all_successful) < total

\* C10: after a handoff the Watcher never probes again and never hands off again,
\* also when process_registration_file raised.
C10_NoResumeAfterFailure ==
    dispatcher_failed => (probes_after_live = 0 /\ handoffs <= 1)

handled(j) == dpc = "pause" \/ (dpc = "results" /\ j < rpos)

RECURSIVE delivered_upto(_)
delivered_upto(n) ==
    IF n = 0 THEN <<>>
    ELSE delivered_upto(n - 1)
            \o (IF "file_sent" \in {task[n].notes[k] : k \in 1..Len(task[n].notes)}
                THEN task[n].reg ELSE <<>>)

\* C11: an identifier whose fetch returned a document gets the result-found embed and
\* then the delivery: delivered, it is in the tally and there is no warning; not
\* delivered, the warning follows and it is not in the tally.  The tally holds the
\* delivered identifiers of the batch and nothing else.
C11_FoundDelivery ==
    /\ \A j \in Positions :
        (handled(j) /\ task[j].html # None) =>
            \/ task[j].notes = <<"found", "file_sent">>
            \/ task[j].notes = <<"found", "file_failed", "warning">>
    /\ \A j \in Positions :
        (handled(j) /\ task[j].html = None) =>
            \A k \in 1..Len(task[j].notes) : task[j].notes[k] \notin {"found", "file_sent"}
    /\ dpc \in {"results", "pause"} =>
            successful = delivered_upto(IF dpc = "pause" THEN Len(task) ELSE rpos - 1)

\* a finished batch of two documents, the first not delivered, the second delivered
C11_Witness ==
    /\ dpc = "pause"
    /\ Len(task) = 2
    /\ task[1].notes = <<"found", "file_failed", "warning">>
    /\ task[2].notes = <<"found", "file_sent">>
    /\ successful = task[2].reg

summaries == Cardinality({k \in 1..Len(runlog) : runlog[k] = "summary"})

\* C12: a run that went through its batches has sent the summary once, as its last
\* notification, after every result of the last batch was handled; its fields are the
\* length of the deduplicated list, the number of documents delivered, and their
\* difference.  Before that no summary was sent.
C12_SummaryOnceAndRight ==
    /\ summaries <= 1
    /\ (summary # None) <=> (summaries = 1)
    /\ (dpc = "returned" /\ total > 0) =>
            /\ summaries = 1
            /\ runlog[Len(runlog)] = "summary"
            /\ n_outcomes = total
    /\ summary # None =>
            /\ dpc \in {"returned", "idle"}
            /\ summary[1].total_processed = Len(reg_nos)
            /\ summary[1].successful = n_delivered
            /\ summary[1].failed = Len(reg_nos) - n_delivered
            /\ summary[1].successful + summary[1].failed = summary[1].total_processed
            /\ summary[1].successful >= 0
            /\ summary[1].successful <= summary[1].total_processed

\* the summary of a run of two batches: some documents delivered, some not
C12_Witness ==
    /\ summary # None
    /\ total > BATCH_SIZE
    /\ summary[1].successful > 0
    /\ summary[1].failed > 0

watcher_step ==
    /\ (wpc # "done" /\ wpc' = "done") =>
            \/ wpc = "loop" /\ shutdown
            \/ wpc = "dispatch" /\ live_seen
    /\ (wpc = "probe" /\ wpc' # "probe") =>
            \/ wpc' = "dispatch" /\ live_seen'
            \/ wpc' = "sleep" /\ obs_cat' \in Categories /\ UNCHANGED live_seen
    /\ (wpc = "sleep" /\ wpc' # "sleep") =>
            wpc' = "loop" /\ now' >= now + CHECK_INTERVAL
    /\ (wpc = "loop" /\ wpc' # "loop" /\ ~shutdown) => wpc' = "probe"

\* C13: the Watcher's loop is left only from its head with the shutdown event set, or
\* from the handoff after a Live probe.  A probe that is not Live (NotYet, Degraded,
\* an exception) goes to the sleep of CHECK_INTERVAL, the sleep to the loop head, and
\* the loop head to the next probe unless the event is set.
C13_LoopEndsOnlyOnLiveOrShutdown ==
    /\ [](wpc = "done" => (live_seen \/ shutdown))
    /\ [][watcher_step]_vars

\* every kind of probe that is not Live has been seen and the Watcher probes again
C13_Witness ==
    /\ seen = Categories
    /\ wpc = "probe"
    /\ ~live_seen
    /\ ~shutdown

\* C14: main has exited only with monitor_website over, no Dispatcher run open and
\* the closing notification sent; the closing notification is sent nowhere else; and
\* nothing of the program, so no notification, happens after it.
C14_FinalNotificationLast ==
    /\ [](mpc = "exited" => (final_sent /\ wpc = "done" /\ dpc = "idle"))
    /\ [](final_sent => mpc = "exited")
    /\ [][mpc = "await" /\ ~final_sent]_vars

\* the exit on a shutdown signal, after probes that were not Live
C14_Witness ==
    /\ mpc = "exited"
    /\ final_sent
    /\ shutdown
    /\ ~live_seen
    /\ seen # {}

\* C15: main.py's monitor_website calls process_registration_file at most once and
\* does not probe again after that call.
C15_VariantHandsOffOnce ==
    /\ monitor.runs <= 1
    /\ monitor.probes_after_run = 0

\* C16: process_batch works on one batch at a time, in list order.  While a batch is
\* being fetched, every identifier before it has had its result handled and the
\* tasks are those of reg_nos[i:i + BATCH_SIZE], in order; a batch's results are
\* handled only once none of its fetches is open; and the batches, one after another,
\* are a prefix of the deduplicated list, and the whole list when the summary is due.
C16_BatchesInOrder ==
    /\ dpc = "gather" => n_outcomes = i
    /\ dpc \in {"gather", "results", "pause"} =>
            /\ Len(task) = Len(batch)
            /\ n_outcomes <= i + Len(task)
            /\ batched = SubSeq(reg_nos, 1, i + Len(task))
            /\ \A j \in Positions :
                    task[j].reg # None => task[j].reg = Some(reg_nos[i + j])
    /\ dpc \in {"results", "pause"} => \A j \in Positions : task[j].pc = "done"
    /\ dpc = "batch" => (task = NoTasks /\ n_outcomes = i /\ batched = SubSeq(reg_nos, 1, i))
    /\ (dpc \in {"summary", "returned"} /\ total > 0) =>
            (batched = reg_nos /\ n_outcomes = total)

\* the second batch is being fetched, a request of it is out
C16_Witness ==
    /\ dpc = "gather"
    /\ i = BATCH_SIZE
    /\ n_outcomes = BATCH_SIZE
    /\ \E j \in Positions : task[j].pc = "get" /\ task[j].attempt > 0

\* C17: last_error_notification and is_first_check change only in a step whose
\* notification reached the webhook; a suppressed observation and one whose send
\* failed leave both as they were.
C17_ThrottleMovesOnlyOnSuccess ==
    [][(last_error_notification' # last_error_notification
            \/ is_first_check' # is_first_check) => send_result' = "ok"]_vars

\* the tasks of the batch that are inside send_discord_message; every other send of
\* the run is awaited by the one coroutine that runs the Dispatcher
sends_in_flight == {j \in Positions : task[j].pc = "send"}

\* C18: at most one notification send is in flight at any time.
C18_SendsSerialized == Cardinality(sends_in_flight) <= 1

no_valid_identifier == \A k \in 1..Len(reg_nos) : ~valid(reg_nos[k])

\* C19: once the file was looked at, a run with no valid identifier (file missing,
\* unreadable, empty, or holding shape-invalid lines only) has sent one run-level
\* error notification and returned: no Processing Started, no batch, no task, no
\* summary.
C19_NoValidIdentifierEndsRun ==
    (dpc # "called" /\ no_valid_identifier) =>
        /\ Len(runlog) = 1
        /\ runlog[1] \in {"file_not_found", "file_error", "no_numbers"}
        /\ dpc \in {"returned", "idle"}
        /\ task = NoTasks
        /\ summary = None

\* the fetch of position j has returned and nothing was notified for it yet
resolved_unnotified(j) ==
    /\ task[j].pc = "done"
    /\ task[j].reg # None
    /\ task[j].notes = <<>>

\* C20: no identifier whose fetch has returned waits with its outcome notification
\* for the fetch of another identifier of the batch.
C20_OutcomeAtOnce ==
    \A j \in Positions :
        \A k \in Positions \ {j} :
            ~(resolved_unnotified(j) /\ task[k].pc \in {"wait", "get", "backoff"})

RECURSIVE acquisitions_upto(_)
acquisitions_upto(n) == IF n = 0 THEN 0 ELSE acquisitions_upto(n - 1) + task[n].acquired

RECURSIVE releases_upto(_)
releases_upto(n) == IF n = 0 THEN 0 ELSE releases_upto(n - 1) + task[n].released

\* C21: a valid identifier takes the semaphore once, before its first request, keeps
\* it through every request and back-off sleep, and gives it back once, when its
\* fetch returns; a shape-invalid identifier never takes it; the semaphore's value is
\* PARALLEL_REQUESTS less the permits taken and not given back, and it is
\* PARALLEL_REQUESTS again, with as many releases as acquisitions, when the batch is
\* done.
C21_GateHeldPerIdentifier ==
    /\ \A j \in Positions :
        /\ task[j].acquired <= 1
        /\ task[j].released <= task[j].acquired
        /\ ~valid(batch[j]) => task[j].acquired = 0
        /\ task[j].calls > 0 => task[j].acquired = 1
        /\ task[j].pc = "wait" => (task[j].acquired = 0 /\ task[j].calls = 0)
        /\ task[j].pc \in {"get", "backoff"} =>
                (task[j].acquired = 1 /\ task[j].released = 0)
        /\ (task[j].pc = "done" /\ valid(batch[j])) =>
                (task[j].acquired = 1 /\ task[j].released = 1)
    /\ dpc \in {"gather", "results", "pause"} =>
            /\ permits >= 0
            /\ permits = PARALLEL_REQUESTS
                            - acquisitions_upto(Len(task)) + releases_upto(Len(task))
    /\ dpc \in {"results", "pause"} =>
            /\ permits = PARALLEL_REQUESTS
            /\ acquisitions_upto(Len(task)) = releases_upto(Len(task))

\* one identifier keeps the gate in the back-off sleep after its second request while
\* another valid identifier of the batch waits for it
C21_Witness ==
    /\ dpc = "gather"
    /\ permits = 0
    /\ \E j \in Positions :
        /\ task[j].pc = "backoff"
        /\ task[j].calls = 2
        /\ task[j].acquired = 1
    /\ \E k \in Positions : task[k].pc = "wait"

\* how far monitor_website is on its way out once the event is set
exit_rank(pc) ==
    IF pc = "start" THEN 0
    ELSE IF pc = "probe" THEN 1
    ELSE IF pc \in {"dispatch", "sleep"} THEN 2
    ELSE IF pc = "loop" THEN 3
    ELSE 4

\* C22: with the shutdown event set, no step starts a probe, and every step of the
\* Watcher takes it nearer its end: the probe in flight is classified (Live still
\* calls process_registration_file, which runs to its end), then at most one sleep,
\* then the loop head, which ends the loop.
C22_NoProbeAfterShutdown ==
    [][shutdown =>
        /\ (wpc' = "probe" => wpc = "probe")
        /\ UNCHANGED current_time
        /\ (wpc' # wpc => exit_rank(wpc') > exit_rank(wpc))
        /\ (wpc = "sleep" /\ wpc' # wpc => wpc' = "loop")
        /\ (wpc = "loop" /\ wpc' # wpc => wpc' = "done")]_vars

\* the signal came while a probe was in flight; the probe was Live, the Dispatcher
\* ran through a batch to its summary, and the Watcher is over
C22_Witness ==
    /\ shutdown
    /\ probes_after_live = 0
    /\ handoffs = 1
    /\ wpc = "done"
    /\ summary # None
    /\ mpc = "await"

====
